---- MODULE Spec2Model ----
(***************************************************************************)
(* A model of fractalz' dive binary (src/src/main.rs) and of the Julia     *)
(* evaluator (src/src/fractal/julia.rs).                                   *)
(*                                                                         *)
(* Three parts share one module:                                           *)
(*   - the nearest-match search find_point and the selector                *)
(*     find_target_point, as operators applied to small rasters            *)
(*     (SpecFind, SpecSelector);                                           *)
(*   - Julia::iterations, one loop pass per step (SpecJulia);              *)
(*   - main: argument parsing, the antialiazing check, the choice of the   *)
(*     fractal and of the zoom budget, the dive loop and the final render  *)
(*     (Spec).                                                             *)
(***************************************************************************)
EXTENDS Integers, Sequences, FiniteSets, TLC

VARIABLES
    \* ---- find_point called on its own (SpecFind)
    image,          \* the raster searched
    fstart,         \* the start pixel
    predicate,      \* "dark" or "edge"
    found,          \* the value returned: None or a pixel
    probed,         \* the coordinates handed to get_pixel
    fpc,            \* "idle" | "call" | "returned" | "panic"
    \* ---- find_target_point called on its own (SpecSelector)
    blurred,        \* imageops::blur(&grayscaled, 10.0)
    edged,          \* edges(&grayscaled)
    sstart,         \* (rng.gen_range(0, width), rng.gen_range(0, height))
    black_point,    \* the first search's result
    target,         \* the value returned
    searches,       \* number of find_point calls made
    spc,            \* "idle" | "call" | "returned"
    \* ---- Julia::iterations (SpecJulia)
    jc,             \* self.c
    jstart,         \* the argument (x, y)
    z,              \* the local z
    iterations,     \* the local u8 counter
    updates,        \* number of executions of z = z * z + self.c
    checks,         \* number of evaluations of the escape test
    fired_at,       \* index of the check at which the escape test failed, 0 if none
    returned,       \* the value returned, -1 before the return
    jpc,            \* "idle" | "loop" | "returned" | "panic"
    \* ---- main (Spec)
    pc,             \* position in main
    arg,            \* the --screen-dimensions argument, a sequence of tokens
    width, height,  \* settings.screen_dimensions
    antialiazing,   \* settings.antialiazing
    produce_debug_images,
    fractal,        \* "none" | "Mandelbrot" | "Julia"
    zoom_divisions, \* the budget counter (usize)
    initial_divisions, \* the value drawn for zoom_divisions
    camera,         \* NoCamera or [center, zoom, screen_size]
    completed,      \* number of calls of camera.target_on
    rng_draws,      \* number of values drawn from rng
    selector_calls, \* number of calls of find_target_point
    last_target,    \* what the last selector call returned
    renders,        \* number of calls of produce_image
    snapshots,      \* number of debug images saved
    final_rasters   \* number of final images saved

findVars == <<image, fstart, predicate, found, probed, fpc>>
selVars == <<blurred, edged, sstart, black_point, target, searches, spc>>
juliaVars == <<jc, jstart, z, iterations, updates, checks, fired_at, returned, jpc>>
mainVars == <<pc, arg, width, height, antialiazing, produce_debug_images,
              fractal, zoom_divisions, initial_divisions,
              camera, completed, rng_draws, selector_calls, last_target,
              renders, snapshots, final_rasters>>
vars == <<findVars, selVars, juliaVars, mainVars>>

(***************************************************************************)
(* Bounds of the model.                                                    *)
(***************************************************************************)
\* Rasters searched on their own have at most this many pixels.
MaxCells == 5
\* Largest screen dimension an argument names.
MaxDim == 2
\* Longest --screen-dimensions argument, in tokens.
MaxArgLen == 3
\* Dive iterations followed in one run (the largest budget drawn is 39).
MaxDives == 41
\* Width of the machine word modelled for usize (64 on the real targets; a
\* wrapped counter lands on 2^UsizeBits - 1, above every budget either way).
UsizeBits == 16
\* One unit of the fixed-point grid that stands for f64 is 1/Scale.
Scale == 4
\* Magnitudes above Huge units overflow to an infinity.
Huge == 1000

(***************************************************************************)
(* Option<(u32, u32)>: None, or the pixel <<x, y>> itself.                 *)
(***************************************************************************)
None == <<>>

Pixels(w, h) == (0 .. (w - 1)) \X (0 .. (h - 1))

\* A raster: image.dimensions() and the first channel of every pixel (the
\* rasters searched are grayscale, Rgb { data: [i; 3] }).
Raster(w, h, lums) == [w : {w}, h : {h}, px : [Pixels(w, h) -> lums]]

DarkThreshold == 128
EdgeThreshold == 128

\* The two closures handed to find_point.
Holds(pred, lum) ==
    IF pred = "dark" THEN lum <= DarkThreshold ELSE lum >= EdgeThreshold

\* The successors closure of find_point: the 4-connected neighbours kept
\* by the four bounds tests.
neighbours_off_by_one(p, w, h) ==
    (IF p[1] > 0 THEN {<<p[1] - 1, p[2]>>} ELSE {})
    \cup (IF p[2] > 0 THEN {<<p[1], p[2] - 1>>} ELSE {})
    \cup (IF p[1] < w THEN {<<p[1] + 1, p[2]>>} ELSE {})
    \cup (IF p[2] < h THEN {<<p[1], p[2] + 1>>} ELSE {})

neighbours(p, w, h) ==
    (IF p[1] > 0 THEN {<<p[1] - 1, p[2]>>} ELSE {})
    \cup (IF p[2] > 0 THEN {<<p[1], p[2] - 1>>} ELSE {})
    \cup (IF p[1] < w - 1 THEN {<<p[1] + 1, p[2]>>} ELSE {})
    \cup (IF p[2] < h - 1 THEN {<<p[1], p[2] + 1>>} ELSE {})

\* pathfinding::dijkstra with unit costs: nodes leave the queue in order of
\* cost, the success closure is evaluated on each node as it leaves, and the
\* first node it accepts is returned.  The order among nodes of equal cost
\* is the queue's own, so every accepted node of the first cost that has one
\* is a possible result.  frontier holds the nodes of the current cost, seen
\* those of smaller cost.  get_pixel panics on a coordinate outside the
\* raster.
RECURSIVE dijkstra(_, _, _, _)
dijkstra(frontier, seen, img, pred) ==
    IF frontier = {} THEN [hits |-> {}, probed |-> seen, panic |-> FALSE]
    ELSE IF \E p \in frontier : p \notin Pixels(img.w, img.h)
    THEN [hits |-> {}, probed |-> seen \cup frontier, panic |-> TRUE]
    ELSE LET hits == {p \in frontier : Holds(pred, img.px[p])}
             next == UNION {neighbours(p, img.w, img.h) : p \in frontier}
         IN  IF hits # {}
             THEN [hits |-> hits, probed |-> seen \cup frontier, panic |-> FALSE]
             ELSE dijkstra(next \ (seen \cup frontier), seen \cup frontier, img, pred)

\* find_point: the last node of the path found, or None.
find_point(s, img, pred) ==
    LET r == dijkstra({s}, {}, img, pred)
    IN  IF r.panic THEN {[result |-> None, probed |-> r.probed, panic |-> TRUE]}
        ELSE IF r.hits = {}
        THEN {[result |-> None, probed |-> r.probed, panic |-> FALSE]}
        ELSE {[result |-> p, probed |-> r.probed, panic |-> FALSE] : p \in r.hits}

\* find_target_point after the rasters are made and the start is drawn:
\* the first search over the blurred raster, and (and_then) the second over
\* the edge raster from the pixel the first one found.
find_target_point_from_start(s, blur, edge) ==
    LET first == find_point(s, blur, "dark")
    IN  UNION {
            IF f.result = None
            THEN {[black |-> None, target |-> None, searches |-> 1]}
            ELSE {[black |-> f.result, target |-> g.result, searches |-> 2] :
                      g \in find_point(s, edge, "edge")}
            : f \in first}

find_target_point(s, blur, edge) ==
    LET first == find_point(s, blur, "dark")
    IN  UNION {
            IF f.result = None
            THEN {[black |-> None, target |-> None, searches |-> 1]}
            ELSE {[black |-> f.result, target |-> g.result, searches |-> 2] :
                      g \in find_point(f.result, edge, "edge")}
            : f \in first}

(***************************************************************************)
(* find_point and find_target_point on their own: the rasters and the      *)
(* start pixel are drawn by Init, one action applies the function.         *)
(***************************************************************************)
NoRaster == [w |-> 0, h |-> 0, px |-> <<>>]

\* The raster sizes searched: at least one pixel each way.
SearchDims == {d \in (1 .. MaxCells) \X (1 .. MaxCells) : d[1] * d[2] <= MaxCells}

\* Luminances on both sides of the thresholds and on them.
AroundThreshold == {DarkThreshold - 1, DarkThreshold, DarkThreshold + 1}
BlurredLums == {DarkThreshold, DarkThreshold + 1}
EdgedLums == {EdgeThreshold - 1, EdgeThreshold}

FindIdle ==
    /\ image = NoRaster /\ fstart = None /\ predicate = "none"
    /\ found = None /\ probed = {} /\ fpc = "idle"

SelIdle ==
    /\ blurred = NoRaster /\ edged = NoRaster /\ sstart = None
    /\ black_point = None /\ target = None /\ searches = 0 /\ spc = "idle"

FindInit ==
    /\ \E d \in SearchDims :
          /\ image \in Raster(d[1], d[2], AroundThreshold)
          /\ fstart \in Pixels(d[1], d[2])
    /\ predicate \in {"dark", "edge"}
    /\ found = None /\ probed = {} /\ fpc = "call"

FindPointCall ==
    /\ fpc = "call"
    /\ \E r \in find_point(fstart, image, predicate) :
          /\ found' = r.result
          /\ probed' = r.probed
          /\ fpc' = IF r.panic THEN "panic" ELSE "returned"
    /\ UNCHANGED <<image, fstart, predicate, selVars, juliaVars, mainVars>>

SelInit ==
    /\ \E d \in SearchDims :
          /\ blurred \in Raster(d[1], d[2], BlurredLums)
          /\ edged \in Raster(d[1], d[2], EdgedLums)
          /\ sstart \in Pixels(d[1], d[2])
    /\ black_point = None /\ target = None /\ searches = 0 /\ spc = "call"

FindTargetPointCall ==
    /\ spc = "call"
    /\ \E r \in find_target_point(sstart, blurred, edged) :
          /\ black_point' = r.black
          /\ target' = r.target
          /\ searches' = r.searches
    /\ spc' = "returned"
    /\ UNCHANGED <<blurred, edged, sstart, findVars, juliaVars, mainVars>>

(***************************************************************************)
(* f64 on a fixed-point grid.  A finite value is an integer number of      *)
(* units of 1/Scale between -Huge and Huge; a result beyond that range     *)
(* overflows to an infinity, and the undefined forms give NaN, as IEEE 754 *)
(* arithmetic does.  Products are rounded to the nearest unit.             *)
(***************************************************************************)
PosInf == Huge + 1
NegInf == 0 - (Huge + 1)
NaN == Huge + 2

IsNaN(a) == a = NaN
IsInf(a) == a = PosInf \/ a = NegInf
Sign(a) == IF a > 0 THEN 1 ELSE IF a < 0 THEN 0 - 1 ELSE 0
Abs(a) == IF a < 0 THEN 0 - a ELSE a

Overflowed(v) == IF v > Huge THEN PosInf ELSE IF v < 0 - Huge THEN NegInf ELSE v

FNeg(a) == IF IsNaN(a) THEN NaN ELSE 0 - a

FAdd(a, b) ==
    IF IsNaN(a) \/ IsNaN(b) THEN NaN
    ELSE IF IsInf(a) /\ IsInf(b) THEN (IF a = b THEN a ELSE NaN)
    ELSE IF IsInf(a) THEN a
    ELSE IF IsInf(b) THEN b
    ELSE Overflowed(a + b)

FSub(a, b) == FAdd(a, FNeg(b))

FMul(a, b) ==
    IF IsNaN(a) \/ IsNaN(b) THEN NaN
    ELSE IF IsInf(a) \/ IsInf(b)
    THEN (IF a = 0 \/ b = 0 THEN NaN
          ELSE IF Sign(a) * Sign(b) > 0 THEN PosInf ELSE NegInf)
    ELSE Overflowed(Sign(a) * Sign(b) * ((2 * Abs(a) * Abs(b) + Scale) \div (2 * Scale)))

\* a <= b on f64: false when either side is NaN.
FLe(a, b) == ~IsNaN(a) /\ ~IsNaN(b) /\ a <= b

\* A decimal literal n/10 on the grid.
Tenths(n) == (2 * n * Scale + 10) \div 20

\* Complex64 addition and multiplication (num_complex).
Complex64(re, im) == [re |-> re, im |-> im]
CAdd(a, b) == Complex64(FAdd(a.re, b.re), FAdd(a.im, b.im))
CMul(a, b) ==
    Complex64(FSub(FMul(a.re, b.re), FMul(a.im, b.im)),
              FAdd(FMul(a.re, b.im), FMul(a.im, b.re)))

(***************************************************************************)
(* Julia (src/src/fractal/julia.rs)                                        *)
(***************************************************************************)
U8Max == 255

\* Julia::new
JuliaNew(x, y) == Complex64(FAdd(Tenths(3), x), FAdd(Tenths(5), y))

\* The first conjunct of the while condition: (z + z).re <= 4.0
escape_test_strict(zz) == ~IsNaN(CAdd(zz, zz).re) /\ CAdd(zz, zz).re < 4 * Scale

escape_test(zz) == FLe(CAdd(zz, zz).re, 4 * Scale)

\* The while condition, the escape test first (&& evaluates it first).
loop_condition_cap_inclusive(zz, it) == escape_test(zz) /\ it <= U8Max

loop_condition(zz, it) == escape_test(zz) /\ it < U8Max

\* iterations += 1 on a u8: past 255 the build either traps or wraps.
u8_increment(n) ==
    IF n < U8Max THEN {[value |-> n + 1, panic |-> FALSE]}
    ELSE {[value |-> 0, panic |-> FALSE], [value |-> n, panic |-> TRUE]}

\* Arguments of Julia::new and of iterations the runs are started on.
JuliaDeltas ==
    {FNeg(Tenths(3)), 0, Scale, 2 * Scale - Tenths(3)} \X {FNeg(Tenths(5)), 0}
JuliaStarts ==
    {NegInf, 0 - 2 * Scale, 0 - Scale, 0, 1, Scale, 2 * Scale - 1, 2 * Scale,
     2 * Scale + 1, PosInf, NaN}
    \X {0 - Scale, 0, 1, Scale}

JuliaIdle ==
    /\ jc = Complex64(0, 0) /\ jstart = Complex64(0, 0) /\ z = Complex64(0, 0)
    /\ iterations = 0 /\ updates = 0 /\ checks = 0 /\ fired_at = 0
    /\ returned = 0 - 1 /\ jpc = "idle"

\* Lines 18-19: iterations = 0, z = Complex64::new(x, y).
JuliaInit ==
    /\ \E d \in JuliaDeltas : jc = JuliaNew(d[1], d[2])
    /\ \E s \in JuliaStarts : jstart = Complex64(s[1], s[2])
    /\ z = jstart
    /\ iterations = 0 /\ updates = 0 /\ checks = 0 /\ fired_at = 0
    /\ returned = 0 - 1 /\ jpc = "loop"

\* One pass of the loop body (lines 21-24).
JuliaUpdate ==
    /\ jpc = "loop"
    /\ loop_condition(z, iterations)
    /\ checks' = checks + 1
    /\ z' = CAdd(CMul(z, z), jc)
    /\ updates' = updates + 1
    /\ \E r \in u8_increment(iterations) :
          /\ iterations' = r.value
          /\ jpc' = IF r.panic THEN "panic" ELSE "loop"
    /\ UNCHANGED <<jc, jstart, fired_at, returned, findVars, selVars, mainVars>>

\* The while condition fails and iterations is returned (lines 21, 26).
JuliaReturn ==
    /\ jpc = "loop"
    /\ ~loop_condition(z, iterations)
    /\ checks' = checks + 1
    /\ fired_at' = IF escape_test(z) THEN 0 ELSE checks + 1
    /\ returned' = iterations
    /\ jpc' = "returned"
    /\ UNCHANGED <<jc, jstart, z, iterations, updates, findVars, selVars, mainVars>>

(***************************************************************************)
(* main (src/src/main.rs): the settings                                    *)
(***************************************************************************)
\* A --screen-dimensions argument is a sequence of tokens: a run of decimal
\* digits (with its value), the letter x, white space, or anything else.
Tokens ==
    {[k |-> "num", v |-> n] : n \in 0 .. MaxDim}
    \cup {[k |-> c, v |-> 0] : c \in {"x", "space", "other"}}

ArgStrings == UNION {[1 .. n -> Tokens] : n \in 0 .. MaxArgLen}

\* str::trim
RECURSIVE trim_start(_)
trim_start(s) ==
    IF s # <<>> /\ Head(s).k = "space" THEN trim_start(Tail(s)) ELSE s

RECURSIVE trim_end(_)
trim_end(s) ==
    IF s # <<>> /\ s[Len(s)].k = "space"
    THEN trim_end(SubSeq(s, 1, Len(s) - 1)) ELSE s

trim(s) == trim_end(trim_start(s))

\* str::split('x'): the parts between the x's, cur being the part in progress.
RECURSIVE split(_, _)
split(s, cur) ==
    IF s = <<>> THEN <<cur>>
    ELSE IF Head(s).k = "x" THEN <<cur>> \o split(Tail(s), <<>>)
    ELSE split(Tail(s), Append(cur, Head(s)))

\* str::parse::<u32>: Ok only for a lone run of digits.
ParseErr == 0 - 1
parse(part) ==
    IF Len(part) = 1 /\ part[1].k = "num" THEN part[1].v ELSE ParseErr

\* ScreenDimensions::from_str: any two u32 values are accepted, zero included.
from_str(s) ==
    LET parts == split(trim(s), <<>>)
    IN  IF Len(parts) < 2 THEN [ok |-> FALSE, w |-> 0, h |-> 0]
        ELSE IF Len(parts) > 2 THEN [ok |-> FALSE, w |-> 0, h |-> 0]
        ELSE IF parse(parts[1]) = ParseErr THEN [ok |-> FALSE, w |-> 0, h |-> 0]
        ELSE IF parse(parts[2]) = ParseErr THEN [ok |-> FALSE, w |-> 0, h |-> 0]
        ELSE [ok |-> TRUE, w |-> parse(parts[1]), h |-> parse(parts[2])]

\* u32::count_ones and u32::trailing_zeros
U32Bits == 32

RECURSIVE count_ones(_)
count_ones(n) == IF n = 0 THEN 0 ELSE (n % 2) + count_ones(n \div 2)

RECURSIVE trailing_zeros(_)
trailing_zeros(n) ==
    IF n = 0 THEN U32Bits
    ELSE IF n % 2 = 1 THEN 0 ELSE 1 + trailing_zeros(n \div 2)

is_power_of_four(n) == count_ones(n) = 1 /\ trailing_zeros(n) % 2 = 0

\* Values of --antialiazing the runs are started on.
Antialiazings == {0, 1, 2, 4, 8}

(***************************************************************************)
(* Camera (fractalz::Camera, not among the source files): center, zoom and *)
(* screen_size.  zoom is kept as its binary exponent relative to the zoom  *)
(* Camera::new sets (multiplying an f64 by 0.5 lowers the exponent by one  *)
(* and is exact), center as the pixel of the previous view whose plane     *)
(* point it is (None for the center Camera::new sets).                     *)
(***************************************************************************)
NoCamera == [center |-> None, zoom |-> 1, screen_size |-> <<0, 0>>]

CameraNew(w, h) == [center |-> None, zoom |-> 0, screen_size |-> <<w, h>>]

target_on(cam, pixel, new_zoom) == [cam EXCEPT !.center = pixel, !.zoom = new_zoom]

\* zoom * 0.5
half(zoom) == zoom - 1

(***************************************************************************)
(* main: the run                                                           *)
(***************************************************************************)
\* The value last_target holds before the selector is called.
NotCalled == <<0 - 1>>

\* rng.gen_range(3, 40) and rng.gen_range(0, 40)
MandelbrotLow == 3
MandelbrotHigh == 40
JuliaLow == 0
JuliaHigh == 40

\* usize::MAX on the word modelled.
UsizeMax == 2 * (2 ^ (UsizeBits - 1) - 1) + 1

\* zoom_divisions -= 1 on a usize: below 0 the build either traps or wraps.
usize_decrement(n) ==
    IF n > 0 THEN {[value |-> n - 1, panic |-> FALSE]}
    ELSE {[value |-> UsizeMax, panic |-> FALSE], [value |-> n, panic |-> TRUE]}

\* The rasters a selector call of the run may see: a blurred raster that is
\* dark everywhere or nowhere, and an edge raster with no edge or with one
\* edge pixel.
Uniform(w, h, lum) == [w |-> w, h |-> h, px |-> [p \in Pixels(w, h) |-> lum]]
Spot(w, h, q, lum, around) ==
    [w |-> w, h |-> h, px |-> [p \in Pixels(w, h) |-> IF p = q THEN lum ELSE around]]
RunBlurred(w, h) == {Uniform(w, h, lum) : lum \in BlurredLums}
RunEdged(w, h) ==
    {Uniform(w, h, EdgeThreshold - 1)}
    \cup {Spot(w, h, q, EdgeThreshold, EdgeThreshold - 1) : q \in Pixels(w, h)}

\* What find_target_point may return on a screen of w by h pixels.
SelectorTargets(w, h) ==
    {r.target : r \in UNION {find_target_point(s, b, e) :
                  s \in Pixels(w, h), b \in RunBlurred(w, h), e \in RunEdged(w, h)}}

\* The same for every screen an argument can name, as pairs <<screen, target>>.
TargetPairs ==
    UNION {{<<d, t>> : t \in SelectorTargets(d[1], d[2])} :
              d \in (1 .. MaxDim) \X (1 .. MaxDim)}

TargetsFor(w, h) ==
    {t \in Pixels(w, h) \cup {None} : <<<<w, h>>, t>> \in TargetPairs}

MainIdle ==
    /\ pc = "idle" /\ arg = <<>> /\ width = 0 /\ height = 0 /\ antialiazing = 0
    /\ produce_debug_images = FALSE /\ fractal = "none"
    /\ zoom_divisions = 0 /\ initial_divisions = 0 /\ camera = NoCamera
    /\ completed = 0 /\ rng_draws = 0 /\ selector_calls = 0
    /\ last_target = NotCalled /\ renders = 0 /\ snapshots = 0
    /\ final_rasters = 0

MainInit ==
    /\ pc = "from_args"
    /\ arg \in ArgStrings
    /\ antialiazing \in Antialiazings
    /\ produce_debug_images \in BOOLEAN
    /\ width = 0 /\ height = 0 /\ fractal = "none"
    /\ zoom_divisions = 0 /\ initial_divisions = 0 /\ camera = NoCamera
    /\ completed = 0 /\ rng_draws = 0 /\ selector_calls = 0
    /\ last_target = NotCalled /\ renders = 0 /\ snapshots = 0
    /\ final_rasters = 0

\* Settings::from_args (line 184): the argument is parsed by from_str; the
\* settings keep the parsed value only.
FromArgs ==
    /\ pc = "from_args"
    /\ LET r == from_str(arg)
       IN  /\ pc' = IF r.ok THEN "check" ELSE "usage_error"
           /\ width' = r.w
           /\ height' = r.h
    /\ arg' = <<>>
    /\ UNCHANGED <<antialiazing, produce_debug_images, fractal, zoom_divisions,
                   initial_divisions, camera, completed, rng_draws,
                   selector_calls, last_target, renders, snapshots,
                   final_rasters, findVars, selVars, juliaVars>>

\* Lines 186-189.
CheckAntialiazing ==
    /\ pc = "check"
    /\ pc' = IF is_power_of_four(antialiazing) THEN "seed" ELSE "exit_1"
    /\ UNCHANGED <<arg, width, height, antialiazing, produce_debug_images,
                   fractal, zoom_divisions, initial_divisions, camera,
                   completed, rng_draws, selector_calls, last_target, renders,
                   snapshots, final_rasters, findVars, selVars, juliaVars>>

\* Lines 191-206: the generator is seeded and the camera created.
SeedAndCamera ==
    /\ pc = "seed"
    /\ camera' = CameraNew(width, height)
    /\ pc' = "choose"
    /\ UNCHANGED <<arg, width, height, antialiazing, produce_debug_images,
                   fractal, zoom_divisions, initial_divisions,
                   completed, rng_draws, selector_calls, last_target, renders,
                   snapshots, final_rasters, findVars, selVars, juliaVars>>

\* Lines 208-216: rng.gen() gives Mandelbrot, then the budget is drawn.
ChooseMandelbrot ==
    /\ pc = "choose"
    /\ fractal' = "Mandelbrot"
    /\ \E b \in MandelbrotLow .. (MandelbrotHigh - 1) :
          /\ zoom_divisions' = b
          /\ initial_divisions' = b
    /\ rng_draws' = rng_draws + 2
    /\ pc' = "dive"
    /\ UNCHANGED <<arg, width, height, antialiazing, produce_debug_images,
                   camera, completed, selector_calls, last_target, renders,
                   snapshots, final_rasters, findVars, selVars, juliaVars>>

\* Lines 208, 217-239: rng.gen() gives Julia, two draws pick its parameter,
\* then the budget is drawn.
ChooseJulia ==
    /\ pc = "choose"
    /\ fractal' = "Julia"
    /\ \E b \in JuliaLow .. (JuliaHigh - 1) :
          /\ zoom_divisions' = b
          /\ initial_divisions' = b
    /\ rng_draws' = rng_draws + 4
    /\ pc' = "dive"
    /\ UNCHANGED <<arg, width, height, antialiazing, produce_debug_images,
                   camera, completed, selector_calls, last_target, renders,
                   snapshots, final_rasters, findVars, selVars, juliaVars>>

\* One evaluation of the while-let condition on a screen with no pixels
\* (line 249): find_target_point renders, then rng.gen_range(0, 0) panics
\* (line 161; the width is drawn first, so a positive width costs one draw).
DiveNoPixels ==
    /\ pc = "dive"
    /\ width = 0 \/ height = 0
    /\ selector_calls' = selector_calls + 1
    /\ renders' = renders + 1
    /\ rng_draws' = rng_draws + (IF width > 0 THEN 1 ELSE 0)
    /\ pc' = "panic"
    /\ UNCHANGED <<arg, width, height, antialiazing, produce_debug_images,
                   fractal, zoom_divisions, initial_divisions, camera,
                   completed, last_target, snapshots, final_rasters,
                   findVars, selVars, juliaVars>>

\* The while-let condition fails (line 249): the selector returns None and
\* the loop is left.
DiveNoTargetDecrementing ==
    /\ pc = "dive"
    /\ width > 0 /\ height > 0
    /\ None \in TargetsFor(width, height)
    /\ selector_calls' = selector_calls + 1
    /\ renders' = renders + 1
    /\ rng_draws' = rng_draws + 2
    /\ last_target' = None
    /\ zoom_divisions' = IF zoom_divisions > 0 THEN zoom_divisions - 1 ELSE 0
    /\ pc' = "render"
    /\ UNCHANGED <<arg, width, height, antialiazing, produce_debug_images,
                   fractal, initial_divisions, camera,
                   completed, snapshots, final_rasters,
                   findVars, selVars, juliaVars>>

DiveNoTarget ==
    /\ pc = "dive"
    /\ width > 0 /\ height > 0
    /\ None \in TargetsFor(width, height)
    /\ selector_calls' = selector_calls + 1
    /\ renders' = renders + 1
    /\ rng_draws' = rng_draws + 2
    /\ last_target' = None
    /\ pc' = "render"
    /\ UNCHANGED <<arg, width, height, antialiazing, produce_debug_images,
                   fractal, zoom_divisions, initial_divisions, camera,
                   completed, snapshots, final_rasters,
                   findVars, selVars, juliaVars>>

\* One pass of the loop (lines 249-258): the selector returns a pixel, the
\* camera is aimed at it with half the zoom, the debug image is produced if
\* asked for, the budget is decremented and the loop is left when it is 0.
DiveTarget ==
    /\ pc = "dive"
    /\ width > 0 /\ height > 0
    /\ completed < MaxDives
    /\ \E t \in TargetsFor(width, height) \ {None} :
          /\ last_target' = t
          /\ camera' = target_on(camera, t, half(camera.zoom))
    /\ selector_calls' = selector_calls + 1
    /\ rng_draws' = rng_draws + 2
    /\ completed' = completed + 1
    /\ snapshots' = snapshots + (IF produce_debug_images THEN 1 ELSE 0)
    /\ renders' = renders + 1 + (IF produce_debug_images THEN 1 ELSE 0)
    /\ \E r \in usize_decrement(zoom_divisions) :
          /\ zoom_divisions' = r.value
          /\ pc' = IF r.panic THEN "panic"
                   ELSE IF r.value = 0 THEN "render" ELSE "dive"
    /\ UNCHANGED <<arg, width, height, antialiazing, produce_debug_images,
                   fractal, initial_divisions, final_rasters,
                   findVars, selVars, juliaVars>>

\* Lines 277-284: the screen size is scaled, the image rendered, resized
\* and saved.
FinalRender ==
    /\ pc = "render"
    /\ camera' = [camera EXCEPT !.screen_size =
                      <<width * antialiazing, height * antialiazing>>]
    /\ renders' = renders + 1
    /\ final_rasters' = final_rasters + 1
    /\ pc' = "done"
    /\ UNCHANGED <<arg, width, height, antialiazing, produce_debug_images,
                   fractal, zoom_divisions, initial_divisions,
                   completed, rng_draws, selector_calls, last_target,
                   snapshots, findVars, selVars, juliaVars>>

(***************************************************************************)
(* The specifications                                                      *)
(***************************************************************************)
Init == MainInit /\ FindIdle /\ SelIdle /\ JuliaIdle

Next ==
    \/ FromArgs
    \/ CheckAntialiazing
    \/ SeedAndCamera
    \/ ChooseMandelbrot
    \/ ChooseJulia
    \/ DiveNoPixels
    \/ DiveNoTarget
    \/ DiveTarget
    \/ FinalRender

Spec == Init /\ [][Next]_vars

InitFind == FindInit /\ SelIdle /\ JuliaIdle /\ MainIdle
NextFind == FindPointCall
SpecFind == InitFind /\ [][NextFind]_vars

InitSelector == SelInit /\ FindIdle /\ JuliaIdle /\ MainIdle
NextSelector == FindTargetPointCall
SpecSelector == InitSelector /\ [][NextSelector]_vars

InitJulia == JuliaInit /\ FindIdle /\ SelIdle /\ MainIdle
NextJulia == JuliaUpdate \/ JuliaReturn
SpecJulia == InitJulia /\ [][NextJulia]_vars

(***************************************************************************)
(* Properties                                                              *)
(***************************************************************************)
Manhattan(p, q) == Abs(p[1] - q[1]) + Abs(p[2] - q[2])

\* The pixels of a raster that are dark (<= 128), or strong edges (>= 128).
DarkPixels(img) == {p \in Pixels(img.w, img.h) : img.px[p] <= 128}
EdgePixels(img) == {p \in Pixels(img.w, img.h) : img.px[p] >= 128}

\* q is one of the pixels of S nearest to p on the 4-connected grid.
Nearest(p, q, S) == q \in S /\ \A r \in S : Manhattan(p, q) <= Manhattan(p, r)

\* n = 4^k for a natural k (u32 values).
PowerOfFour(n) == \E k \in 0 .. 15 : n = 4 ^ k

\* C1: the dive makes at most as many zoom steps as the budget drawn (none
\* when the budget drawn is 0), and no further pass of the loop is started
\* once the counter is zero.
DiveWithinBudget ==
    /\ completed <= initial_divisions
    /\ (pc = "dive" /\ selector_calls > 0 => zoom_divisions > 0)

\* C2: at every pass boundary of the dive loop, and at the final render,
\* the zoom is the initial zoom halved once per completed iteration, the
\* remaining budget is the initial budget minus the completed iterations,
\* and the completed iterations are at most the initial budget.
ZoomTracksIterations ==
    pc \in {"dive", "render", "done"} =>
        /\ camera.zoom = 0 - completed
        /\ zoom_divisions = initial_divisions - completed
        /\ completed <= initial_divisions

\* C3: find_target_point returns a pixel exactly when the blurred raster
\* has a dark pixel and the edge raster a strong edge; the pixel returned is
\* a strong edge nearest to the dark pixel found, which is a dark pixel
\* nearest to the random start; the second search is run only when the
\* first one found a pixel; an all-dark raster with no edge gives None.
SelectorTwoStage ==
    spc = "returned" =>
        /\ (black_point = None <=> DarkPixels(blurred) = {})
        /\ (black_point # None => Nearest(sstart, black_point, DarkPixels(blurred)))
        /\ (target # None <=> DarkPixels(blurred) # {} /\ EdgePixels(edged) # {})
        /\ (target # None => Nearest(black_point, target, EdgePixels(edged)))
        /\ searches = (IF black_point = None THEN 1 ELSE 2)
        /\ (DarkPixels(blurred) = Pixels(blurred.w, blurred.h)
               /\ EdgePixels(edged) = {} => target = None)

SelectorTwoStageWitness ==
    /\ spc = "returned" /\ target # None
    /\ black_point # sstart /\ target # black_point
    /\ ~Nearest(sstart, target, EdgePixels(edged))

\* C4: settings with a zero width, a zero height or an antialiazing that is
\* not a power of four are rejected before the core runs: no random draw,
\* no camera, no selector call, no render.
RejectedBeforeCore ==
    (/\ pc # "from_args"
     /\ (width = 0 \/ height = 0 \/ ~PowerOfFour(antialiazing)))
    => /\ pc \notin {"choose", "dive", "render", "done", "panic"}
       /\ rng_draws = 0 /\ camera = NoCamera
       /\ selector_calls = 0 /\ renders = 0

\* C5: Julia::iterations never updates z more than 255 times, its counter
\* never passes 255 (the increment never overflows), the loop can always
\* take its next step, the value returned is the number of updates, and it
\* is 255 exactly when the escape test did not fire on the first 255 checks.
JuliaCapped ==
    /\ jpc # "panic"
    /\ iterations <= 255 /\ updates <= 255 /\ iterations = updates
    /\ (jpc = "loop" => checks = updates /\ ENABLED NextJulia)
    /\ (jpc = "returned" =>
           /\ returned = updates
           /\ checks = updates + 1
           /\ (returned = 255 <=> (fired_at = 0 \/ fired_at > 255)))

JuliaCappedWitness ==
    jpc = "returned" /\ returned = 255 /\ fired_at = 0 /\ updates = 255

\* C6, as claimed: a start point exactly on the escape boundary,
\* (z + z).re = 4.0, is classified as escaped and returns 0.
BoundaryStartEscaped ==
    (jpc = "returned" /\ 2 * jstart.re = 4 * Scale) => returned = 0

\* C6, amended: a point exactly on the boundary is not escaped: the loop
\* returns at a z with (z + z).re = 4.0 only when the counter has reached
\* 255, so a start point on the boundary returns at least 1; the escape test
\* stops the loop only when (z + z).re > 4.0 or is NaN.
BoundaryNotEscaped ==
    jpc = "returned" =>
        /\ (2 * jstart.re = 4 * Scale => returned >= 1)
        /\ (2 * z.re = 4 * Scale => returned = 255 /\ fired_at = 0)
        /\ (fired_at # 0 => z.re = NaN \/ z.re = PosInf \/ 2 * z.re > 4 * Scale)

BoundaryNotEscapedWitness ==
    jpc = "returned" /\ 2 * jstart.re = 4 * Scale /\ returned >= 1

\* C7: once the core has started, the debug snapshots number the completed
\* dive iterations when enabled and zero when disabled, and a run that has
\* ended has produced exactly one final raster, after the dive loop.
SnapshotsAndOneFinal ==
    pc \in {"seed", "choose", "dive", "render", "done", "panic"} =>
        /\ snapshots = (IF produce_debug_images THEN completed ELSE 0)
        /\ final_rasters = (IF pc = "done" THEN 1 ELSE 0)
        /\ pc # "panic"

\* C9: find_point returns None exactly when no pixel satisfies the
\* predicate, otherwise a satisfying pixel at minimal Manhattan distance
\* from the start (the start itself when it satisfies the predicate), and
\* it hands get_pixel no coordinate outside the raster.
FindPointNearest ==
    /\ fpc # "panic"
    /\ probed \subseteq Pixels(image.w, image.h)
    /\ fpc = "returned" =>
        LET sat == IF predicate = "dark" THEN DarkPixels(image) ELSE EdgePixels(image)
        IN  /\ (found = None <=> sat = {})
            /\ (found # None => Nearest(fstart, found, sat))
            /\ (fstart \in sat => found = fstart)

FindPointNearestWitness ==
    /\ fpc = "returned" /\ found # None
    /\ Manhattan(fstart, found) >= 2
    /\ image.w >= 2 /\ image.h >= 2

\* A step in which the selector is called and returns None changes neither
\* the camera, the budget, the iteration count nor the snapshots, and leads
\* to the final render.
NoTargetKeepsState ==
    (selector_calls' = selector_calls + 1 /\ last_target' = None)
    => (/\ camera' = camera
        /\ zoom_divisions' = zoom_divisions
        /\ completed' = completed
        /\ snapshots' = snapshots
        /\ pc' = "render")

\* A step taken once the loop is left is the final render: the selector is
\* not called.
NoCallAfterDive ==
    (pc = "render" \/ pc = "done")
    => (selector_calls' = selector_calls /\ pc' = "done" /\ final_rasters' = 1)

\* C10: a selector call that returns None ends the dive there: the camera,
\* the budget counter and the snapshot count keep their values, the run goes
\* to the final render, and after the loop the selector is not called again.
NoTargetEndsDive == [][NoTargetKeepsState /\ NoCallAfterDive]_vars

NoTargetEndsDiveWitness ==
    /\ pc = "done" /\ last_target = None /\ final_rasters = 1
    /\ completed >= 1 /\ zoom_divisions >= 1

====
